---- MODULE Spec2Model ----
(***************************************************************************)
(* Model of the modicum crate: modular arithmetic over a primitive signed  *)
(* operand type T (i8, the type of the crate's doc example) and an         *)
(* unsigned modulus type M.                                                *)
(*                                                                         *)
(* Every arithmetic operator of T is modelled with its machine behaviour:  *)
(* `/` and `%` truncate toward zero and panic on a zero divisor and on     *)
(* MIN / -1; `+`, `-`, `*` panic on overflow when the build has overflow   *)
(* checks and wrap in two's complement when it has not.                    *)
(***************************************************************************)
EXTENDS Integers, Sequences, FiniteSets

VARIABLES
    op,        \* the operation that is called
    a,         \* `self`
    b,         \* `rhs` / `other`
    m,         \* `modulus`, a value of the unsigned type M
    checks,    \* TRUE: the build has overflow checks (debug), FALSE: it wraps
    pc,        \* position of the call
    stack,     \* frames of the recursive egcd that have not returned yet
    ret,       \* value returned by the last egcd frame that returned
    inverse,   \* div_mod's `inverse` (the outcome of rhs.invert(modulus))
    result,    \* pow_mod's `result`
    base,      \* pow_mod's `base`
    rhs,       \* pow_mod's `rhs`
    iters,     \* number of times pow_mod's loop body has run
    wrapped,   \* some `+`, `-` or `*` of the call overflowed
    out        \* outcome of the call

vars == <<op, a, b, m, checks, pc, stack, ret, inverse, result, base, rhs,
          iters, wrapped, out>>

\* ---------------------------------------------------------------- bounds

\* Operands of Spec are drawn from -MaxVal..MaxVal.
MaxVal == 6
\* Moduli of Spec are drawn from 0..MaxMod, and the first value i8 cannot hold.
MaxMod == 8

\* ------------------------------------------------------ the operand type

\* Width of the operand type T = i8.
Bits == 8

TMin == -(2 ^ (Bits - 1))
TMax == 2 ^ (Bits - 1) - 1
InT(v) == TMin <= v /\ v <= TMax

Abs(v) == IF v < 0 THEN -v ELSE v

\* Two's complement wrap-around of an out-of-range result.
Wrap(v) == ((v - TMin) % (2 ^ Bits)) + TMin

\* Outcomes of an expression: a value, Option's None / Some, or a panic.
\* ovf records that an overflow happened on the way.
Ok(v) == [tag |-> "ok", val |-> v, ovf |-> FALSE]
Some(v) == [tag |-> "some", val |-> v, ovf |-> FALSE]
None == [tag |-> "none", val |-> 0, ovf |-> FALSE]
Panic == [tag |-> "panic", val |-> 0, ovf |-> FALSE]
Unset == [tag |-> "unset", val |-> 0, ovf |-> FALSE]

\* Sequencing: evaluate r, and unless it panicked go on with F(its value).
Then(r, F(_)) ==
    IF r.tag = "panic" THEN r
    ELSE LET s == F(r.val) IN [s EXCEPT !.ovf = r.ovf \/ s.ovf]

\* `+`, `-`, `*` of T: the exact result when it fits; otherwise a panic
\* (overflow checks on) or the wrapped value (overflow checks off).
Arith(v) ==
    IF InT(v) THEN Ok(v)
    ELSE IF checks THEN [tag |-> "panic", val |-> 0, ovf |-> TRUE]
    ELSE [tag |-> "ok", val |-> Wrap(v), ovf |-> TRUE]

Add(x, y) == Arith(x + y)
Sub(x, y) == Arith(x - y)
Mul(x, y) == Arith(x * y)

\* Quotient rounded toward zero, and the remainder with the dividend's sign.
TruncDiv(x, y) ==
    LET q == Abs(x) \div Abs(y)
    IN IF (x < 0) # (y < 0) THEN -q ELSE q

TruncRem(x, y) == x - y * TruncDiv(x, y)

\* `/` and `%` of T: panic on a zero divisor and on MIN / -1, in every build.
Div(x, y) ==
    IF y = 0 \/ (x = TMin /\ y = -1) THEN Panic ELSE Ok(TruncDiv(x, y))

Rem(x, y) ==
    IF y = 0 \/ (x = TMin /\ y = -1) THEN Panic ELSE Ok(TruncRem(x, y))

\* ------------------------------------------------------------ modulus.rs

\* Modulus::cast: try_into().expect(..) panics when T cannot hold the value.
Cast(modulus) == IF modulus <= TMax THEN Ok(modulus) ELSE Panic

\* ----------------------------------------------------------------- lib.rs

\* Faulty variant: self % modulus, without the correction of a negative remainder.
ConstrainNoAdd(self, modulus) ==
    Then(Cast(modulus), LAMBDA mt: Rem(self, mt))

\* Faulty variant: (self + modulus) % modulus, without the first reduction.
ConstrainNoFirstRem(self, modulus) ==
    Then(Cast(modulus), LAMBDA mt:
    Then(Add(self, mt), LAMBDA s: Rem(s, mt)))

\* Constrain::constrain: (self % modulus + modulus) % modulus
Constrain(self, modulus) ==
    Then(Cast(modulus), LAMBDA mt:
    Then(Rem(self, mt), LAMBDA r:
    Then(Add(r, mt), LAMBDA s: Rem(s, mt))))

AddMod(self, other, modulus) ==
    Then(Add(self, other), LAMBDA s: Constrain(s, modulus))

SubMod(self, other, modulus) ==
    Then(Sub(self, other), LAMBDA s: Constrain(s, modulus))

MulMod(self, other, modulus) ==
    Then(Mul(self, other), LAMBDA s: Constrain(s, modulus))

EqMod(self, other, modulus) ==
    Then(Constrain(self, modulus), LAMBDA x:
    Then(Constrain(other, modulus), LAMBDA y: Ok(x = y)))

NeMod(self, other, modulus) ==
    Then(Constrain(self, modulus), LAMBDA x:
    Then(Constrain(other, modulus), LAMBDA y: Ok(x # y)))

\* ---------------------------------------------------------------- egcd.rs

\* Faulty variant: the recursive call egcd(b, a).
EgcdArgNoRem(x, y) == Ok(x)

\* The second argument of the recursive call egcd(b, a % b).
EgcdArg(x, y) == Rem(x, y)

\* Faulty variant: (d, y', y' - (x / y) * x'), the coefficients swapped.
EgcdCombineSwapped(x, y, t) ==
    Then(Div(x, y), LAMBDA q:
    Then(Mul(q, t[2]), LAMBDA p:
    Then(Sub(t[3], p), LAMBDA c: Ok(<<t[1], t[3], c>>))))

\* What a frame egcd(x, y) returns from (d, x', y') = t, the result of its
\* recursive call: (d, y', x' - (x / y) * y').
EgcdCombine(x, y, t) ==
    Then(Div(x, y), LAMBDA q:
    Then(Mul(q, t[3]), LAMBDA p:
    Then(Sub(t[2], p), LAMBDA c: Ok(<<t[1], t[3], c>>))))

\* -------------------------------------------------------------- invert.rs

\* Faulty variant: egcd on the operand as given, not on its residue.
InvertEnterRaw(x, p) ==
    Then(Constrain(x, p), LAMBDA xc:
    Then(Cast(p), LAMBDA pt: Ok([a |-> x, b |-> pt])))

\* invert, up to its call of egcd: the frame a.constrain(p).egcd(p.cast()).
InvertEnter(x, p) ==
    Then(Constrain(x, p), LAMBDA xc:
    Then(Cast(p), LAMBDA pt: Ok([a |-> xc, b |-> pt])))

\* Faulty variant: Some(x), without reducing the coefficient.
InvertFinishNoReduce(t, p) ==
    IF t[1] # 1 THEN None ELSE Some(t[2])

\* invert, from the return of egcd with (d, x, _) = t.
InvertFinish(t, p) ==
    IF t[1] # 1 THEN None
    ELSE Then(Constrain(t[2], p), LAMBDA x: Some(x))

\* invert(x, p) as a value: invert's two halves around the recursion of egcd
\* (each frame is EgcdArg, the recursive call, then EgcdCombine).
RECURSIVE EgcdOf(_, _)
EgcdOf(x, y) ==
    IF y = 0 THEN Ok(<<x, 1, 0>>)
    ELSE Then(EgcdArg(x, y), LAMBDA r:
         Then(EgcdOf(y, r), LAMBDA t: EgcdCombine(x, y, t)))

Invert(x, p) ==
    Then(InvertEnter(x, p), LAMBDA f:
    Then(EgcdOf(f.a, f.b), LAMBDA t: InvertFinish(t, p)))

\* ----------------------------------------------------------------- lib.rs

\* Faulty variant: self.invert(modulus).
DivModOperandSelf(self, other) == self

\* The operand div_mod inverts: rhs.invert(modulus).
DivModOperand(self, other) == other

\* div_mod, from the return of rhs.invert(modulus): `?` hands a None on.
DivModFinish(inv, self, modulus) ==
    IF inv.tag # "some" THEN inv
    ELSE Then(inv, LAMBDA i:
         Then(Mul(i, self), LAMBDA p:
         Then(Constrain(p, modulus), LAMBDA r: Some(r))))

\* Faulty variant: halving as an arithmetic shift does it, rounding toward
\* minus infinity.
HalveFloor(e) == Ok(e \div 2)

\* rhs / two
Halve(e) == Div(e, 2)

\* One run of the body of pow_mod's loop, from (result, base, rhs).
PowBody(res, bs, e, modulus) ==
    Then(Rem(e, 2), LAMBDA o:
    Then(IF o = 1 THEN MulMod(res, bs, modulus) ELSE Ok(res), LAMBDA r:
    Then(MulMod(bs, bs, modulus), LAMBDA b1:
    Then(Halve(e), LAMBDA e1: Ok(<<r, b1, e1>>)))))

\* ------------------------------------------------------------ the calls

Ops == {"constrain", "egcd", "invert", "add_mod", "sub_mod", "mul_mod",
        "div_mod", "pow_mod", "eq_mod", "ne_mod"}

Start(ops, selfs, others, moduli) ==
    /\ op \in ops
    /\ a \in selfs
    /\ b \in others
    /\ m \in moduli
    /\ checks \in BOOLEAN
    /\ pc = "call"
    /\ stack = <<>>
    /\ ret = <<0, 0, 0>>
    /\ inverse = Unset
    /\ result = 0
    /\ base = 0
    /\ rhs = 0
    /\ iters = 0
    /\ wrapped = FALSE
    /\ out = Unset

\* Every operation on small operands, every small modulus, the zero modulus
\* and a modulus T cannot hold.
Init ==
    Start(Ops, -MaxVal .. MaxVal, -MaxVal .. MaxVal,
          (0 .. MaxMod) \cup {TMax + 1})

\* The call returns (or panics with) outcome r.
Finish(r) ==
    /\ pc' = "done"
    /\ out' = r
    /\ wrapped' = (wrapped \/ r.ovf)

\* A one-expression operation: the call is its whole body.
Return(name, r) ==
    /\ pc = "call"
    /\ op = name
    /\ Finish(r)
    /\ UNCHANGED <<op, a, b, m, checks, stack, ret, inverse, result, base,
                   rhs, iters>>

ConstrainCall == Return("constrain", Constrain(a, m))
AddModCall == Return("add_mod", AddMod(a, b, m))
SubModCall == Return("sub_mod", SubMod(a, b, m))
MulModCall == Return("mul_mod", MulMod(a, b, m))
EqModCall == Return("eq_mod", EqMod(a, b, m))
NeModCall == Return("ne_mod", NeMod(a, b, m))

Top == stack[Len(stack)]
Pop == SubSeq(stack, 1, Len(stack) - 1)

\* Egcd::egcd(self, other): the outermost frame egcd(a, b).
EgcdCall ==
    /\ pc = "call"
    /\ op = "egcd"
    /\ stack' = <<[a |-> a, b |-> b]>>
    /\ pc' = "egcd"
    /\ UNCHANGED <<op, a, b, m, checks, ret, inverse, result, base, rhs,
                   iters, wrapped, out>>

\* invert(a, p) and div_mod's rhs.invert(modulus), up to the call of egcd.
EnterInvert(name, x) ==
    /\ pc = "call"
    /\ op = name
    /\ LET f == InvertEnter(x, m)
       IN IF f.tag = "panic"
          THEN Finish(f) /\ UNCHANGED stack
          ELSE /\ stack' = <<f.val>>
               /\ pc' = "egcd"
               /\ wrapped' = (wrapped \/ f.ovf)
               /\ UNCHANGED out
    /\ UNCHANGED <<op, a, b, m, checks, ret, inverse, result, base, rhs,
                   iters>>

InvertCall == EnterInvert("invert", a)
DivModCall == EnterInvert("div_mod", DivModOperand(a, b))

\* egcd(a, b) with b # 0: the recursive call egcd(b, a % b).
EgcdRecurse ==
    /\ pc = "egcd"
    /\ Top.b # 0
    /\ LET r == EgcdArg(Top.a, Top.b)
       IN IF r.tag = "panic"
          THEN Finish(r) /\ UNCHANGED stack
          ELSE /\ stack' = Append(stack, [a |-> Top.b, b |-> r.val])
               /\ wrapped' = (wrapped \/ r.ovf)
               /\ UNCHANGED <<pc, out>>
    /\ UNCHANGED <<op, a, b, m, checks, ret, inverse, result, base, rhs,
                   iters>>

\* egcd(a, 0) returns (a, 1, 0).
EgcdBase ==
    /\ pc = "egcd"
    /\ Top.b = 0
    /\ ret' = <<Top.a, 1, 0>>
    /\ stack' = Pop
    /\ pc' = IF Pop = <<>> THEN "egcd_done" ELSE "egcd_ret"
    /\ UNCHANGED <<op, a, b, m, checks, inverse, result, base, rhs, iters,
                   wrapped, out>>

\* A frame whose recursive call returned computes its own result and returns.
EgcdReturn ==
    /\ pc = "egcd_ret"
    /\ LET r == EgcdCombine(Top.a, Top.b, ret)
       IN IF r.tag = "panic"
          THEN Finish(r) /\ UNCHANGED <<stack, ret>>
          ELSE /\ ret' = r.val
               /\ stack' = Pop
               /\ pc' = IF Pop = <<>> THEN "egcd_done" ELSE "egcd_ret"
               /\ wrapped' = (wrapped \/ r.ovf)
               /\ UNCHANGED out
    /\ UNCHANGED <<op, a, b, m, checks, inverse, result, base, rhs, iters>>

\* Egcd::egcd returns the outermost frame's triple.
EgcdExit ==
    /\ pc = "egcd_done"
    /\ op = "egcd"
    /\ Finish(Ok(ret))
    /\ UNCHANGED <<op, a, b, m, checks, stack, ret, inverse, result, base,
                   rhs, iters>>

\* invert, after egcd: None unless d = 1, else Some(x.constrain(p)).
InvertReturn ==
    /\ pc = "egcd_done"
    /\ op = "invert"
    /\ Finish(InvertFinish(ret, m))
    /\ UNCHANGED <<op, a, b, m, checks, stack, ret, inverse, result, base,
                   rhs, iters>>

\* div_mod, after rhs.invert(modulus).
DivModReturn ==
    /\ pc = "egcd_done"
    /\ op = "div_mod"
    /\ inverse' = InvertFinish(ret, m)
    /\ Finish(DivModFinish(inverse', a, m))
    /\ UNCHANGED <<op, a, b, m, checks, stack, ret, result, base, rhs,
                   iters>>

\* pow_mod, up to its loop: two = 2, result = 1, base = self.
PowModCall ==
    /\ pc = "call"
    /\ op = "pow_mod"
    /\ result' = 1
    /\ base' = a
    /\ rhs' = b
    /\ pc' = "pow_loop"
    /\ UNCHANGED <<op, a, b, m, checks, stack, ret, inverse, iters, wrapped,
                   out>>

\* while rhs != 0 { .. }: one run of the body.
PowModIter ==
    /\ pc = "pow_loop"
    /\ rhs # 0
    /\ iters' = iters + 1
    /\ LET r == PowBody(result, base, rhs, m)
       IN IF r.tag = "panic"
          THEN Finish(r) /\ UNCHANGED <<result, base, rhs>>
          ELSE /\ result' = r.val[1]
               /\ base' = r.val[2]
               /\ rhs' = r.val[3]
               /\ wrapped' = (wrapped \/ r.ovf)
               /\ UNCHANGED <<pc, out>>
    /\ UNCHANGED <<op, a, b, m, checks, stack, ret, inverse>>

\* The loop ends with rhs = 0 and pow_mod returns result.
PowModReturn ==
    /\ pc = "pow_loop"
    /\ rhs = 0
    /\ Finish(Ok(result))
    /\ UNCHANGED <<op, a, b, m, checks, stack, ret, inverse, result, base,
                   rhs, iters>>

Next ==
    \/ ConstrainCall
    \/ AddModCall
    \/ SubModCall
    \/ MulModCall
    \/ EqModCall
    \/ NeModCall
    \/ EgcdCall
    \/ InvertCall
    \/ DivModCall
    \/ EgcdRecurse
    \/ EgcdBase
    \/ EgcdReturn
    \/ EgcdExit
    \/ InvertReturn
    \/ DivModReturn
    \/ PowModCall
    \/ PowModIter
    \/ PowModReturn

Spec == Init /\ [][Next]_vars

\* constrain on every value of T: every modulus T holds, zero included, and
\* the first one it does not hold.
InitFullRange == Start({"constrain"}, TMin .. TMax, {0}, 0 .. TMax + 1)

NextFullRange == ConstrainCall

SpecFullRange == InitFullRange /\ [][NextFullRange]_vars

\* ------------------------------------------------- reference arithmetic

Divides(d, n) == n % d = 0

\* The greatest common divisor of two naturals, from its definition.
Gcd(x, y) ==
    IF x = 0 THEN y
    ELSE IF y = 0 THEN x
    ELSE CHOOSE d \in 1 .. x :
            /\ Divides(d, x) /\ Divides(d, y)
            /\ \A e \in 1 .. x : Divides(e, x) /\ Divides(e, y) => e <= d

RECURSIVE Pow(_, _)
Pow(x, n) == IF n = 0 THEN 1 ELSE x * Pow(x, n - 1)

\* The number of binary digits of a natural: floor(log2 n) + 1, and 0 for 0.
RECURSIVE BitLen(_)
BitLen(n) == IF n = 0 THEN 0 ELSE 1 + BitLen(n \div 2)

\* The modulus is one the operations accept: positive, and T holds it.
ValidModulus == 0 < m /\ m <= TMax

Returned(name) == pc = "done" /\ op = name

\* ------------------------------------------------------------------- C1

C2_AsStated ==
    Returned("invert") /\ m > 0 /\ out.tag = "some" =>
        /\ 0 <= out.val /\ out.val < m
        /\ MulMod(a, out.val, m) = Ok(1)

\* C2 as amended: whenever invert(a, m) with m > 0 returns Some(x), x is in
\* [0, m) and constrain(a*x, m) = constrain(1, m), which is 1 for m > 1 and
\* 0 for m = 1.
C2_InverseCanonical ==
    Returned("invert") /\ m > 0 /\ out.tag = "some" =>
        /\ 0 <= out.val /\ out.val < m
        /\ MulMod(a, out.val, m) = Constrain(1, m)
        /\ MulMod(a, out.val, m) = Ok(IF m = 1 THEN 0 ELSE 1)

\* invert of a negative operand has returned an inverse other than 0 and 1.
C2_Witness ==
    Returned("invert") /\ a < 0 /\ m > 2 /\ out.tag = "some" /\ out.val > 1

\* ------------------------------------------------------------------- C3

\* C3: for m > 0, invert(a, m) returns None if and only if
\* gcd(constrain(a, m), m) # 1, and Some value in every other case.
C3_NoneIffNotCoprime ==
    Returned("invert") /\ ValidModulus =>
        /\ out.tag \in {"none", "some"}
        /\ (out.tag = "none") <=> (Gcd(Constrain(a, m).val, m) # 1)

\* invert of a negative operand that shares a factor with the modulus, and
\* is not a multiple of it, has returned None.
C3_Witness ==
    /\ Returned("invert") /\ ValidModulus
    /\ a < 0 /\ a % m # 0
    /\ out.tag = "none"

\* ------------------------------------------------------------------- C4

\* C4 as stated: for every base a, exponent e >= 0 and modulus m > 0,
\* pow_mod(a, e, m) lies in [0, m) and is congruent to a^e modulo m.
C4_AsStated ==
    Returned("pow_mod") /\ b >= 0 /\ ValidModulus =>
        /\ out.tag = "ok"
        /\ 0 <= out.val /\ out.val < m
        /\ out.val = Pow(a, b) % m

\* ------------------------------------------------------------------- C5

\* C5: for every v and m > 0, constrain(v, m) lies in [0, m), is congruent
\* to v modulo m, and constrain(constrain(v, m), m) = constrain(v, m).
C5_ConstrainCanonical ==
    Returned("constrain") /\ ValidModulus =>
        /\ out.tag = "ok"
        /\ 0 <= out.val /\ out.val < m
        /\ Divides(m, out.val - a)
        /\ Constrain(out.val, m) = out

\* constrain of a negative operand that is no multiple of the modulus has
\* returned.
C5_Witness ==
    /\ Returned("constrain") /\ ValidModulus
    /\ a < 0 /\ out.tag = "ok" /\ out.val > 0 /\ out.val # a + m

\* ------------------------------------------------------------------- C6

\* C6: for m > 0, div_mod(a, b, m) returns None exactly when invert(b, m)
\* returns None, and a returned Some(r) has
\* constrain(b*r, m) = constrain(a, m).
C6_DivMod ==
    Returned("div_mod") /\ ValidModulus =>
        /\ out.tag \in {"none", "some"}
        /\ (out.tag = "none") <=> (Invert(b, m).tag = "none")
        /\ out.tag = "some" => MulMod(b, out.val, m) = Constrain(a, m)

\* div_mod by a negative invertible divisor has returned a quotient.
C6_Witness ==
    /\ Returned("div_mod") /\ ValidModulus
    /\ b < -1 /\ a % m # 0 /\ a % m # b % m
    /\ out.tag = "some" /\ out.val > 1

\* ------------------------------------------------------------------- C7

\* C7 as stated: every operation that takes a modulus, called with a zero
\* modulus or with one T cannot hold, panics whatever its other arguments
\* are, and never returns a result.
C7_AsStated ==
    pc = "done" /\ op # "egcd" /\ ~ValidModulus => out.tag = "panic"

\* ------------------------------------------------------------------- C8

\* C8: egcd(a, b) terminates for a and b of either sign. Every recursive
\* call egcd(b, a % b) has |a % b| < |b|, so the depth of the recursion plus
\* the magnitude of the current second argument never exceeds that of the
\* outermost call, and a frame either recurses or is the base case.
C8_EgcdTerminates ==
    /\ [][EgcdRecurse /\ pc' = "egcd" => Abs(Top'.b) < Abs(Top.b)]_vars
    /\ [](pc = "egcd" => Len(stack) + Abs(Top.b) <= 1 + Abs(stack[1].b))
    /\ [](pc = "egcd" => ENABLED (EgcdRecurse \/ EgcdBase))

\* egcd of two negative operands is three recursive calls deep.
C8_Witness ==
    op = "egcd" /\ a < 0 /\ b < 0 /\ pc = "egcd" /\ Len(stack) >= 4

\* ------------------------------------------------------------------- C9

\* C9: for m > 0 the loop of pow_mod(a, e, m) terminates for every e,
\* negative ones included. Each run of the body replaces e by e / 2, which
\* is smaller in magnitude, so the runs so far plus bit-length(|e|) stay
\* constant; the loop is left at e = 0, after exactly bit-length(|e|) runs.
C9_PowLoopTerminates ==
    /\ [][PowModIter /\ ValidModulus => Abs(rhs') < Abs(rhs)]_vars
    /\ [](op = "pow_mod" /\ ValidModulus =>
            /\ pc = "pow_loop" =>
                  iters + BitLen(Abs(rhs)) = BitLen(Abs(b))
            /\ pc = "done" => out.tag = "ok" /\ iters = BitLen(Abs(b))
            /\ pc = "pow_loop" /\ rhs = 0 => ENABLED PowModReturn)

\* pow_mod with a negative exponent of three binary digits has returned.
C9_Witness ==
    /\ Returned("pow_mod") /\ ValidModulus
    /\ b < -3 /\ out.tag = "ok" /\ iters = 3

\* ------------------------------------------------------------------ C10

\* C10 as stated: for T = i8, constrain(v, m) overflows for no v of T and no
\* m with 0 < m <= MAX(T), and returns the canonical residue.
C10_AsStated ==
    Returned("constrain") /\ ValidModulus =>
        /\ out.tag = "ok"
        /\ ~wrapped
        /\ out.val = a % m

\* C10 as amended: for T = i8, constrain(v, m) overflows for no v of T and
\* no m with 0 < m and 2*m - 1 <= MAX(T), and returns the canonical residue.
C10_NoOverflowSmallModulus ==
    Returned("constrain") /\ 0 < m /\ 2 * m - 1 <= TMax =>
        /\ out.tag = "ok"
        /\ ~wrapped
        /\ out.val = a % m

\* constrain has returned where (v % m) + m is exactly MAX(T).
C10_Witness ==
    /\ Returned("constrain") /\ 2 * m - 1 = TMax /\ a = m - 1
    /\ out.tag = "ok" /\ out.val = a

====
